---- MODULE Spec2Model ----
(***************************************************************************)
(* Model of sensors/irc_sensor.py: the IRCSensor facade, the two bot       *)
(* sessions (StackStormSensorSimpleBot, StackStormSensorSaslBot) and the   *)
(* event handlers they share (StackStormSensorBaseBot).                    *)
(*                                                                         *)
(* The irc client library (irc.bot.SingleServerIRCBot) is the environment: *)
(* it owns the connection, runs the event loop one handler at a time and   *)
(* reconnects after a disconnect while the loop is running.  Every event   *)
(* it delivers is one atomic step of the model, the handler included.      *)
(***************************************************************************)
EXTENDS Integers, Sequences, FiniteSets, TLC

(* ------------------------------ bounds -------------------------------- *)
\* events delivered to the session in one behaviour
MaxEvents == 2
\* calls of cleanup() the host makes in one behaviour
MaxCleanups == 2
\* last value of the local clock, in ticks
MaxTime == 1

(* ------------------------- program constants -------------------------- *)
\* random.randint(1, 1000)
RandLo == 1
RandHi == 1000
\* time.time() is a float; the clock of the model counts half seconds
TicksPerSecond == 2

(* ------------------------------ values -------------------------------- *)
\* Python's None and str values of the optional 'password' key
None == [type |-> "NoneType"]
Str(s) == [type |-> "str", val |-> s]

\* the configurations the running sensor is constructed with; the key
\* 'password' is optional
Configs ==
    {[server |-> "irc.example.org:6697", nickname |-> "bot1",
      channels |-> <<"#ops">>],
     [server |-> "irc.example.org:6697", nickname |-> "bot1",
      password |-> Str(""), channels |-> << >>],
     [server |-> "irc.example.org:6697", nickname |-> "bot1",
      password |-> Str("hunter2"), channels |-> <<"#ops", "#dev">>]}

\* the values of the key 'server' the constructor is tried on
Servers ==
    {"irc.example.org:6697", "irc.example.org", "irc.example.org:ircs",
     "irc.example.org:6697:extra", "irc.example.org:", ""}

\* a configuration that has the given keys only
MakeConfig(keys, server, password) ==
    [k \in keys |->
        CASE k = "server" -> server
          [] k = "nickname" -> "bot1"
          [] k = "password" -> password
          [] k = "channels" -> <<"#ops">>]

\* the configurations the constructor is tried on: every key present or
\* missing, every value of 'server'
ConfigKeys == {"server", "nickname", "password", "channels"}
ConfigInputs ==
    {MakeConfig(keys, server, password) :
        keys \in SUBSET ConfigKeys, server \in Servers,
        password \in {Str(""), Str("hunter2")}}

\* what the server can put in the events it sends
Sources == {[nick |-> "alice", host |-> "alice@host"]}
Targets == {"#ops"}
Messages == {"deploy v2"}
ErrorTexts == {"Closing Link: (SASL access only)", "Closing Link: (Ping timeout)"}
NoSource == [nick |-> "", host |-> ""]

(* --------------------------- pure functions --------------------------- *)
\* Python's str.split(sep)
RECURSIVE split(_, _)
split(s, sep) ==
    IF \E i \in 1..Len(s) : SubSeq(s, i, i) = sep
      THEN LET i == CHOOSE i \in 1..Len(s) :
                      /\ SubSeq(s, i, i) = sep
                      /\ \A j \in 1..(i - 1) : SubSeq(s, j, j) # sep
           IN  << SubSeq(s, 1, i - 1) >> \o split(SubSeq(s, i + 1, Len(s)), sep)
      ELSE << s >>

Digits == "0123456789"
IsDigit(c) == \E d \in 1..Len(Digits) : SubSeq(Digits, d, d) = c
DigitValue(c) == (CHOOSE d \in 1..Len(Digits) : SubSeq(Digits, d, d) = c) - 1

\* the value of a string of decimal digits
RECURSIVE Decimal(_)
Decimal(s) ==
    IF Len(s) = 0 THEN 0
    ELSE Decimal(SubSeq(s, 1, Len(s) - 1)) * Len(Digits)
            + DigitValue(SubSeq(s, Len(s), Len(s)))

\* Python's int(s) on a string: an optional sign and at least one decimal
\* digit, ValueError otherwise
int(s) ==
    LET signed == Len(s) > 0 /\ SubSeq(s, 1, 1) \in {"+", "-"}
        body == IF signed THEN SubSeq(s, 2, Len(s)) ELSE s
    IN  IF Len(body) > 0 /\ \A i \in 1..Len(body) : IsDigit(SubSeq(body, i, i))
          THEN [raised |-> "",
                value |-> IF signed /\ SubSeq(s, 1, 1) = "-"
                            THEN 0 - Decimal(body) ELSE Decimal(body)]
          ELSE [raised |-> "ValueError", value |-> 0]

\* self._config.get(key): None when the key is missing
config_get(cfg, key) == IF key \in DOMAIN cfg THEN cfg[key] ELSE None

\* the constructor fails: no sensor object, the exception goes to the host
Failed(exception) ==
    [raised |-> exception, _server_host |-> "", _server_port |-> 0,
     _nickname |-> "", _password |-> None, _channels |-> << >>]

\* IRCSensor.__init__: the fields it sets, or the exception it raises
__init__(cfg) ==
    IF "server" \notin DOMAIN cfg THEN Failed("KeyError")
    ELSE LET parts == split(cfg["server"], ":") IN
      IF Len(parts) < 2 THEN Failed("IndexError")
      ELSE IF int(parts[2]).raised # "" THEN Failed(int(parts[2]).raised)
      ELSE IF "nickname" \notin DOMAIN cfg THEN Failed("KeyError")
      ELSE IF "channels" \notin DOMAIN cfg THEN Failed("KeyError")
      ELSE [raised |-> "",
            _server_host |-> parts[1],
            _server_port |-> int(parts[2]).value,
            _nickname |-> cfg["nickname"],
            _password |-> config_get(cfg, "password"),
            _channels |-> cfg["channels"]]

\* Python's truth value of self._password (None and '' are false)
Truthy(v) == v.type = "str" /\ v.val # ""

\* mutant: the test written with == instead of in
Contains_Equal(needle, hay) == needle = hay

\* Python's  needle in hay  on strings
Contains(needle, hay) ==
    \E i \in 1..(Len(hay) - Len(needle) + 1) :
        SubSeq(hay, i, i + Len(needle) - 1) = needle

\* mutant: the range starts one too low
randint_FromZero(lo, hi) == {n \in {lo - 1, hi} : lo <= hi}

\* the draws of random.randint(lo, hi) that are explored: both ends of lo..hi
randint(lo, hi) == {n \in {lo, hi} : lo <= hi}

\* mutant: the random suffix is left out of the format
new_nickname_NoSuffix(nick, n) == nick \o "-"

\* '%s-%s' % (connection.get_nickname(), n)
new_nickname(nick, n) == nick \o "-" \o ToString(n)

\* mutant: the clock reading rounded up to the next whole second
timestamp_Ceiling(t) == (t + TicksPerSecond - 1) \div TicksPerSecond

\* int(time.time())
timestamp(t) == t \div TicksPerSecond

\* the handler mapping built by setup()
handlers ==
    [pubmsg |-> "_handle_pubmsg", privmsg |-> "_handle_privmsg",
     join |-> "_handle_join", part |-> "_handle_part"]

\* mutant: the default of the lookup is the pubmsg handler
get_DefaultPubmsg(h, kind) == IF kind \in DOMAIN h THEN h[kind] ELSE "_handle_pubmsg"

\* self._handlers.get(kind, lambda connection, event: connection)
get(h, kind) == IF kind \in DOMAIN h THEN h[kind] ELSE "noop"

_handle_pubmsg(event) ==
    [trigger |-> "irc.pubmsg",
     payload |-> [source |-> [nick |-> event.source.nick, host |-> event.source.host],
                  channel |-> event.target,
                  timestamp |-> event.timestamp,
                  message |-> event.arguments[1]]]

\* mutant: the pubmsg payload copied with its channel key left in
_handle_privmsg_WithChannel(event) ==
    [trigger |-> "irc.privmsg",
     payload |-> [source |-> [nick |-> event.source.nick, host |-> event.source.host],
                  channel |-> event.target,
                  timestamp |-> event.timestamp,
                  message |-> event.arguments[1]]]

_handle_privmsg(event) ==
    [trigger |-> "irc.privmsg",
     payload |-> [source |-> [nick |-> event.source.nick, host |-> event.source.host],
                  timestamp |-> event.timestamp,
                  message |-> event.arguments[1]]]

_handle_join(event) ==
    [trigger |-> "irc.join",
     payload |-> [source |-> [nick |-> event.source.nick, host |-> event.source.host],
                  timestamp |-> event.timestamp,
                  channel |-> event.target]]

_handle_part(event) ==
    [trigger |-> "irc.part",
     payload |-> [source |-> [nick |-> event.source.nick, host |-> event.source.host],
                  timestamp |-> event.timestamp,
                  channel |-> event.target]]

\* the calls a handler of the mapping makes to sensor_service.dispatch
handler(name, event) ==
    CASE name = "_handle_pubmsg" -> << _handle_pubmsg(event) >>
      [] name = "_handle_privmsg" -> << _handle_privmsg(event) >>
      [] name = "_handle_join" -> << _handle_join(event) >>
      [] name = "_handle_part" -> << _handle_part(event) >>
      [] OTHER -> << >>

\* mutant: only the first configured channel is joined
on_welcome_FirstOnly(chs) ==
    [i \in 1..(IF Len(chs) > 0 THEN 1 ELSE 0) |-> [cmd |-> "JOIN", arg |-> chs[i]]]

\* on_welcome: one connection.join per entry of self._channels, in order
on_welcome(chs) == [i \in 1..Len(chs) |-> [cmd |-> "JOIN", arg |-> chs[i]]]

\* ServerConnection.disconnect(msg): QUIT is sent only while connected
disconnect(isConnected, msg) ==
    IF isConnected THEN << [cmd |-> "QUIT", arg |-> msg] >> ELSE << >>

(* ------------------------------- state -------------------------------- *)
VARIABLES
    sensor,         \* the IRCSensor object: "unbuilt", "built", or "failed" to build
    _config,        \* Sensor._config, the configuration the host supplies
    _server_host,   \* IRCSensor._server_host
    _server_port,   \* IRCSensor._server_port
    trigger_calls,  \* the last call of add_trigger, update_trigger or remove_trigger
    _nickname,      \* IRCSensor._nickname
    _password,      \* IRCSensor._password
    _channels,      \* IRCSensor._channels
    _bot,           \* IRCSensor._bot: [kind, _channels, _handlers], kind "none" before setup()
    loop,           \* the bot's event loop: "idle", "running", "exited"
    connected,      \* connection.connected
    real_nickname,  \* connection.get_nickname()
    requested,      \* the nickname last asked of the server on this connection
    cleanups,       \* the calls of cleanup() so far: what each found the session to be
    sent,           \* commands the session issued on the connection, in order
    dispatched,     \* calls made to sensor_service.dispatch, in order
    draws,          \* the values random.randint returned, in order
    received,       \* events delivered to the session, in order
    raised,         \* the last exception a host call or a handler raised, "" when none
    now             \* local clock, in ticks

vars == << sensor, _config, _server_host, _server_port, trigger_calls,
           _nickname, _password, _channels, _bot, loop, connected, real_nickname,
           requested, cleanups, sent, dispatched, draws, received, raised, now >>

config == << sensor, _config, _server_host, _server_port, trigger_calls,
            _nickname, _password, _channels >>
conn == << connected, real_nickname, requested >>

NoBot == [kind |-> "none", _channels |-> << >>, _handlers |-> << >>]

\* no trigger hook has been called
NoCall == [hook |-> "", at |-> 0]

\* nothing has run yet: no event loop, no connection, nothing sent or received
Quiet ==
    /\ trigger_calls = NoCall
    /\ loop = "idle"
    /\ connected = FALSE
    /\ real_nickname = ""
    /\ requested = ""
    /\ cleanups = << >>
    /\ sent = << >>
    /\ dispatched = << >>
    /\ draws = << >>
    /\ received = << >>
    /\ now = 0

\* the state before setup() and run(): no session
Fresh == _bot = NoBot /\ Quiet

\* the sensor as IRCSensor.__init__ leaves it: the configuration is read, no
\* session is built
Init ==
    /\ \E c \in Configs :
         /\ _config = c
         /\ sensor = "built"
         /\ raised = __init__(c).raised
         /\ raised = ""
         /\ _server_host = __init__(c)._server_host
         /\ _server_port = __init__(c)._server_port
         /\ _nickname = __init__(c)._nickname
         /\ _password = __init__(c)._password
         /\ _channels = __init__(c)._channels
    /\ Fresh

(* ---------------------------- construction ---------------------------- *)
\* the host is about to construct the sensor with some configuration
InitUnbuilt ==
    /\ _config \in ConfigInputs
    /\ sensor = "unbuilt"
    /\ raised = ""
    /\ _server_host = ""
    /\ _server_port = 0
    /\ _nickname = ""
    /\ _password = None
    /\ _channels = << >>
    /\ Fresh

\* IRCSensor(sensor_service, config): the constructor runs
Construct ==
    /\ sensor = "unbuilt"
    /\ LET result == __init__(_config) IN
         /\ sensor' = IF result.raised = "" THEN "built" ELSE "failed"
         /\ raised' = result.raised
         /\ _server_host' = result._server_host
         /\ _server_port' = result._server_port
         /\ _nickname' = result._nickname
         /\ _password' = result._password
         /\ _channels' = result._channels
    /\ UNCHANGED << _config, trigger_calls, _bot, loop, conn, cleanups, sent,
                    dispatched, draws, received, now >>

SpecInit == InitUnbuilt /\ [][Construct]_vars

(* ------------------------------ events -------------------------------- *)
\* the time, in seconds, the server stamps on the events it sends
ServerTime == 9

\* an event as the client library hands it to the session; recv is the
\* local time at which it arrived
Event(type, source, target, arguments) ==
    [type |-> type, source |-> source, target |-> target,
     arguments |-> arguments, tags |-> << [key |-> "time", value |-> ServerTime] >>,
     recv |-> now]

\* event.timestamp = int(time.time())
WithTimestamp(event, t) ==
    [type |-> event.type, source |-> event.source, target |-> event.target,
     arguments |-> event.arguments, timestamp |-> timestamp(t)]

\* mutant: on_part looks its handler up under a misspelt key
on_event_PartKey(bot, kind, event, t) ==
    handler(get(bot._handlers, IF kind = "part" THEN "parts" ELSE kind),
            WithTimestamp(event, t))

\* on_pubmsg, on_privmsg, on_join, on_part: stamp the event, look the handler
\* up by the event's kind and call it
on_event(bot, kind, event, t) ==
    handler(get(bot._handlers, kind), WithTimestamp(event, t))

\* the loop delivers events only while it runs and the connection is up
CanReceive ==
    /\ loop = "running"
    /\ connected
    /\ Len(received) < MaxEvents

\* SingleServerIRCBot.die(): disconnect, then sys.exit(0) ends the event loop
die ==
    /\ sent' = sent \o disconnect(connected, "Bye, cruel world!")
    /\ connected' = FALSE
    /\ loop' = "exited"
    /\ raised' = "SystemExit"

(* --------------------------- host lifecycle --------------------------- *)
\* mutant: the test written as  self._password is not None
BotKind_NotNone(password) == IF password # None THEN "sasl" ELSE "simple"

\* which session class setup() instantiates
BotKind(password) == IF Truthy(password) THEN "sasl" ELSE "simple"

\* IRCSensor.setup
setup ==
    /\ _bot.kind = "none"
    /\ _bot' = [kind |-> BotKind(_password), _channels |-> _channels,
                _handlers |-> handlers]
    /\ UNCHANGED << config, loop, conn, cleanups, sent, dispatched, draws, received,
                    raised, now >>

\* mutant: run() builds the session itself when setup() has not
run_LazySetup ==
    /\ loop = "idle"
    /\ _bot' = IF _bot.kind = "none"
                THEN [kind |-> BotKind(_password), _channels |-> _channels,
                      _handlers |-> handlers]
                ELSE _bot
    /\ loop' = "running"
    /\ connected' = TRUE
    /\ real_nickname' = _nickname
    /\ requested' = _nickname
    /\ UNCHANGED << config, raised, cleanups, sent, dispatched, draws, received, now >>

\* IRCSensor.run: self._bot.start() connects and enters the event loop
run ==
    /\ loop = "idle"
    /\ IF _bot.kind = "none"
         THEN /\ raised' = "AttributeError"
              /\ UNCHANGED << loop, conn >>
         ELSE /\ loop' = "running"
              /\ connected' = TRUE
              /\ real_nickname' = _nickname
              /\ requested' = _nickname
              /\ UNCHANGED raised
    /\ UNCHANGED << config, _bot, cleanups, sent, dispatched, draws, received, now >>

\* mutant: QUIT is written to the connection whether it is connected or not
cleanup_AlwaysQuit ==
    /\ Len(cleanups) < MaxCleanups
    /\ cleanups' = Append(cleanups, [connected |-> connected, loop |-> loop])
    /\ IF _bot.kind = "none"
         THEN /\ raised' = "AttributeError"
              /\ UNCHANGED << sent, connected >>
         ELSE /\ sent' = Append(sent, [cmd |-> "QUIT", arg |-> "Disconnecting"])
              /\ connected' = FALSE
              /\ UNCHANGED raised
    /\ UNCHANGED << config, _bot, loop, real_nickname, requested,
                    dispatched, draws, received, now >>

\* IRCSensor.cleanup: self._bot.disconnect(msg='Disconnecting')
cleanup ==
    /\ Len(cleanups) < MaxCleanups
    /\ cleanups' = Append(cleanups, [connected |-> connected, loop |-> loop])
    /\ IF _bot.kind = "none"
         THEN /\ raised' = "AttributeError"
              /\ UNCHANGED << sent, connected >>
         ELSE /\ sent' = sent \o disconnect(connected, "Disconnecting")
              /\ connected' = FALSE
              /\ UNCHANGED raised
    /\ UNCHANGED << config, _bot, loop, real_nickname, requested,
                    dispatched, draws, received, now >>

(* ------------------------- the client library ------------------------- *)
\* after a disconnect the running loop reconnects, with the configured nickname
Reconnect ==
    /\ loop = "running"
    /\ ~connected
    /\ connected' = TRUE
    /\ real_nickname' = _nickname
    /\ requested' = _nickname
    /\ UNCHANGED << config, _bot, loop, cleanups, sent, dispatched, draws, received,
                    raised, now >>

\* time.time() advances
Tick ==
    /\ now < MaxTime
    /\ now' = now + 1
    /\ UNCHANGED << config, _bot, loop, conn, cleanups, sent, dispatched, draws,
                    received, raised >>

(* --------------------------- event handlers --------------------------- *)
\* welcome: the library records the nickname the server registered, then
\* on_welcome joins the configured channels
Welcome ==
    /\ CanReceive
    /\ LET event == Event("welcome", NoSource, requested, << "Welcome" >>) IN
         /\ received' = Append(received, event)
         /\ real_nickname' = event.target
         /\ sent' = sent \o on_welcome(_bot._channels)
    /\ UNCHANGED << config, _bot, loop, connected, requested, cleanups,
                    dispatched, draws, raised, now >>

\* mutant: the retry is capped, a second collision ends the session
on_nicknameinuse_Capped ==
    /\ CanReceive
    /\ \E n \in randint(RandLo, RandHi) :
         LET event == Event("nicknameinuse", NoSource, real_nickname, << requested >>)
             nick == new_nickname(real_nickname, n)
         IN  /\ received' = Append(received, event)
             /\ IF Len(draws) = 0
                  THEN /\ draws' = Append(draws, n)
                       /\ sent' = Append(sent, [cmd |-> "NICK", arg |-> nick])
                       /\ requested' = nick
                       /\ UNCHANGED << loop, connected, raised >>
                  ELSE /\ die
                       /\ UNCHANGED << draws, requested >>
    /\ UNCHANGED << config, _bot, real_nickname, cleanups, dispatched, now >>

\* mutant: the nickname asked for is also stored as the configured nickname
on_nicknameinuse_Stored ==
    /\ CanReceive
    /\ \E n \in randint(RandLo, RandHi) :
         LET event == Event("nicknameinuse", NoSource, real_nickname, << requested >>)
             nick == new_nickname(real_nickname, n)
         IN  /\ received' = Append(received, event)
             /\ draws' = Append(draws, n)
             /\ sent' = Append(sent, [cmd |-> "NICK", arg |-> nick])
             /\ requested' = nick
             /\ _nickname' = nick
    /\ UNCHANGED << sensor, _config, _server_host, _server_port, trigger_calls,
                    _password, _channels, _bot, loop, connected, real_nickname,
                    cleanups, dispatched, raised, now >>

\* on_nicknameinuse: ask for '<current nickname>-<random 1..1000>'
on_nicknameinuse ==
    /\ CanReceive
    /\ \E n \in randint(RandLo, RandHi) :
         LET event == Event("nicknameinuse", NoSource, real_nickname, << requested >>)
             nick == new_nickname(real_nickname, n)
         IN  /\ received' = Append(received, event)
             /\ draws' = Append(draws, n)
             /\ sent' = Append(sent, [cmd |-> "NICK", arg |-> nick])
             /\ requested' = nick
    /\ UNCHANGED << config, _bot, loop, connected, real_nickname, cleanups,
                    dispatched, raised, now >>

\* nick: the server confirms the nickname change the session asked for
NickChanged ==
    /\ CanReceive
    /\ requested # real_nickname
    /\ LET event == Event("nick", [nick |-> real_nickname, host |-> "bot@host"],
                          requested, << >>) IN
         /\ received' = Append(received, event)
         /\ real_nickname' = event.target
    /\ UNCHANGED << config, _bot, loop, connected, requested, cleanups, sent,
                    dispatched, draws, raised, now >>

on_pubmsg ==
    /\ CanReceive
    /\ \E source \in Sources, target \in Targets, message \in Messages :
         LET event == Event("pubmsg", source, target, << message >>) IN
           /\ received' = Append(received, event)
           /\ dispatched' = dispatched \o on_event(_bot, "pubmsg", event, now)
    /\ UNCHANGED << config, _bot, loop, conn, cleanups, sent, draws, raised, now >>

on_privmsg ==
    /\ CanReceive
    /\ \E source \in Sources, message \in Messages :
         LET event == Event("privmsg", source, real_nickname, << message >>) IN
           /\ received' = Append(received, event)
           /\ dispatched' = dispatched \o on_event(_bot, "privmsg", event, now)
    /\ UNCHANGED << config, _bot, loop, conn, cleanups, sent, draws, raised, now >>

on_join ==
    /\ CanReceive
    /\ \E source \in Sources, target \in Targets :
         LET event == Event("join", source, target, << >>) IN
           /\ received' = Append(received, event)
           /\ dispatched' = dispatched \o on_event(_bot, "join", event, now)
    /\ UNCHANGED << config, _bot, loop, conn, cleanups, sent, draws, raised, now >>

on_part ==
    /\ CanReceive
    /\ \E source \in Sources, target \in Targets :
         LET event == Event("part", source, target, << >>) IN
           /\ received' = Append(received, event)
           /\ dispatched' = dispatched \o on_event(_bot, "part", event, now)
    /\ UNCHANGED << config, _bot, loop, conn, cleanups, sent, draws, raised, now >>

\* mutant: both session classes mix RejoinOnKick in
HasRejoinOnKick_Both(kind) == TRUE

\* whether a session of this kind has the mixin RejoinOnKick
HasRejoinOnKick(kind) == kind = "simple"

\* kick: somebody is kicked from a channel the session is in; RejoinOnKick,
\* mixed into StackStormSensorSimpleBot only, joins the channel again when
\* the one kicked is the session itself
on_kick ==
    /\ CanReceive
    /\ \E source \in Sources, target \in Targets :
       \E kicked \in {real_nickname, source.nick} :
         LET event == Event("kick", source, target, << kicked >>) IN
           /\ \E i \in DOMAIN sent : sent[i] = [cmd |-> "JOIN", arg |-> target]
           /\ received' = Append(received, event)
           /\ sent' = IF HasRejoinOnKick(_bot.kind) /\ kicked = real_nickname
                        THEN Append(sent, [cmd |-> "JOIN", arg |-> event.target])
                        ELSE sent
    /\ UNCHANGED << config, _bot, loop, conn, cleanups, dispatched, draws, raised, now >>

\* whether a session of this kind has the method on_error
HasOnError(kind) == kind = "simple"

\* StackStormSensorSimpleBot.on_error: die when the server demands SASL;
\* StackStormSensorSaslBot defines no on_error
on_error ==
    /\ CanReceive
    /\ \E text \in ErrorTexts :
         LET event == Event("error", NoSource, text, << >>) IN
           /\ received' = Append(received, event)
           /\ IF HasOnError(_bot.kind) /\ Contains("SASL access only", event.target)
                THEN die
                ELSE UNCHANGED << sent, connected, loop, raised >>
    /\ UNCHANGED << config, _bot, real_nickname, requested, cleanups,
                    dispatched, draws, now >>

\* mutant: the constructor does not register on_sasl_failed
Has904Handler_Unregistered(kind) == FALSE

\* whether a session of this kind registered a handler for numeric 904
Has904Handler(kind) == kind = "sasl"

\* StackStormSensorSaslBot.on_sasl_failed, registered for '904' by the SASL
\* bot's constructor only
on_sasl_failed ==
    /\ CanReceive
    /\ LET event == Event("904", NoSource, real_nickname,
                          << "SASL authentication failed" >>) IN
         /\ received' = Append(received, event)
         /\ IF Has904Handler(_bot.kind)
              THEN die
              ELSE UNCHANGED << sent, connected, loop, raised >>
    /\ UNCHANGED << config, _bot, real_nickname, requested, cleanups,
                    dispatched, draws, now >>

(* ------------------------ the session on its own --------------------- *)
\* the handler mappings a session is constructed with: setup()'s, one that
\* leaves kinds out, and an empty one
HandlerMappings ==
    {[kind \in kinds |-> handlers[kind]] :
        kinds \in {DOMAIN handlers, {"pubmsg", "join"}, {}}}

\* StackStormSensorSimpleBot(channels, handlers, logger, ...) and
\* StackStormSensorSaslBot(...): a session with the handler mapping it is given
InitBot ==
    /\ \E c \in Configs, h \in HandlerMappings :
         /\ _config = c
         /\ sensor = "built"
         /\ raised = ""
         /\ _server_host = __init__(c)._server_host
         /\ _server_port = __init__(c)._server_port
         /\ _nickname = __init__(c)._nickname
         /\ _password = __init__(c)._password
         /\ _channels = __init__(c)._channels
         /\ _bot = [kind |-> BotKind(__init__(c)._password),
                    _channels |-> __init__(c)._channels, _handlers |-> h]
    /\ Quiet

NextBot ==
    \/ run
    \/ Tick
    \/ on_pubmsg
    \/ on_privmsg
    \/ on_join
    \/ on_part

SpecBot == InitBot /\ [][NextBot]_vars

(* --------------------------- trigger hooks ---------------------------- *)
\* the host calls a trigger hook: its name and how many events had arrived
Called(hook) == trigger_calls' = [hook |-> hook, at |-> Len(received)]

\* IRCSensor.add_trigger: pass
add_trigger ==
    /\ Called("add_trigger")
    /\ UNCHANGED << sensor, _config, _server_host, _server_port, _nickname,
                    _password, _channels, _bot, loop, conn, cleanups, sent,
                    dispatched, draws, received, raised, now >>

\* IRCSensor.update_trigger: pass
update_trigger ==
    /\ Called("update_trigger")
    /\ UNCHANGED << sensor, _config, _server_host, _server_port, _nickname,
                    _password, _channels, _bot, loop, conn, cleanups, sent,
                    dispatched, draws, received, raised, now >>

\* mutant: removing a trigger unsubscribes the session from its events
remove_trigger_Unsubscribes ==
    /\ Called("remove_trigger")
    /\ _bot' = [kind |-> _bot.kind, _channels |-> _bot._channels,
                _handlers |-> << >>]
    /\ UNCHANGED << sensor, _config, _server_host, _server_port, _nickname,
                    _password, _channels, loop, conn, cleanups, sent,
                    dispatched, draws, received, raised, now >>

\* IRCSensor.remove_trigger: pass
remove_trigger ==
    /\ Called("remove_trigger")
    /\ UNCHANGED << sensor, _config, _server_host, _server_port, _nickname,
                    _password, _channels, _bot, loop, conn, cleanups, sent,
                    dispatched, draws, received, raised, now >>

NextTriggers ==
    \/ setup
    \/ run
    \/ Tick
    \/ on_pubmsg
    \/ on_privmsg
    \/ on_join
    \/ on_part
    \/ add_trigger
    \/ update_trigger
    \/ remove_trigger

SpecTriggers == Init /\ [][NextTriggers]_vars

(* ---------------------------- specification --------------------------- *)
Next ==
    \/ setup
    \/ run
    \/ cleanup
    \/ Reconnect
    \/ Tick
    \/ Welcome
    \/ on_nicknameinuse
    \/ NickChanged
    \/ on_pubmsg
    \/ on_privmsg
    \/ on_join
    \/ on_part
    \/ on_kick
    \/ on_error
    \/ on_sasl_failed

Spec == Init /\ [][Next]_vars

TypeOK ==
    /\ _bot.kind \in {"none", "simple", "sasl"}
    /\ loop \in {"idle", "running", "exited"}
    /\ connected \in BOOLEAN
    /\ Len(cleanups) <= MaxCleanups
    /\ Len(received) <= MaxEvents
    /\ raised \in {"", "AttributeError", "SystemExit"}
    /\ now \in 0..MaxTime

(* ------------------------- helpers of the claims ---------------------- *)
Last(seq) == seq[Len(seq)]
IsJoin(c) == c.cmd = "JOIN"
IsNick(c) == c.cmd = "NICK"
Joins(cmds) == SelectSeq(cmds, IsJoin)
NickRequests(cmds) == SelectSeq(cmds, IsNick)

\* this step delivers an event of the given type to the session
Receives(type) ==
    /\ Len(received') = Len(received) + 1
    /\ Last(received').type = type

Terminated == loop = "exited" /\ ~connected

Got904 == \E i \in DOMAIN received : received[i].type = "904"

IsSaslOnlyError(e) ==
    /\ e.type = "error"
    /\ e.target = "Closing Link: (SASL access only)"
GotSaslOnlyError == \E i \in DOMAIN received : IsSaslOnlyError(received[i])

(* ------------------------------- claims ------------------------------- *)
\* C1 as stated: a 904 reply received by a session of either kind terminates
\* the session, and no channel join is issued after it.
C1_Original ==
    /\ [](Got904 => Terminated)
    /\ [][Got904 => Joins(sent') = Joins(sent)]_vars

\* C1 as amended: a 904 reply received by the SASL bot terminates the session
\* (event loop exited, connection closed), and afterwards no event is
\* delivered and no channel join is issued; the unauthenticated bot has no
\* handler for 904: the reply changes nothing and the session goes on.
C1_SaslFailedTerminatesSaslBot ==
    /\ []((Got904 /\ _bot.kind = "sasl") => Terminated)
    /\ [][(Got904 /\ _bot.kind = "sasl")
            => (Joins(sent') = Joins(sent) /\ received' = received
                /\ loop' = "exited" /\ ~connected')]_vars
    /\ [][(Receives("904") /\ _bot.kind = "simple")
            => UNCHANGED << loop, connected, sent, dispatched, raised >>]_vars

\* C1 witness: the SASL bot joined its channels on welcome, then received 904
\* and terminated after sending QUIT.
C1_Witness ==
    /\ _bot.kind = "sasl"
    /\ Len(received) = 2
    /\ received[1].type = "welcome"
    /\ received[2].type = "904"
    /\ Terminated
    /\ raised = "SystemExit"
    /\ Len(Joins(sent)) = 2
    /\ Last(sent).cmd = "QUIT"

\* C2 as stated: an error whose text contains "SASL access only", received by
\* a session of either kind, terminates the session, and no channel join is
\* issued after it.
C2_Original ==
    /\ [](GotSaslOnlyError => Terminated)
    /\ [][GotSaslOnlyError => Joins(sent') = Joins(sent)]_vars

\* C2 as amended: an error event whose text contains "SASL access only",
\* received by the unauthenticated bot, terminates the session, and afterwards
\* no event is delivered and no channel join is issued; the SASL bot defines
\* no on_error: the event changes nothing and the session goes on.  An error
\* with another text terminates neither.
C2_SaslOnlyErrorTerminatesSimpleBot ==
    /\ []((GotSaslOnlyError /\ _bot.kind = "simple") => Terminated)
    /\ [][(GotSaslOnlyError /\ _bot.kind = "simple")
            => (Joins(sent') = Joins(sent) /\ received' = received
                /\ loop' = "exited" /\ ~connected')]_vars
    /\ [][(Receives("error")
             /\ (_bot.kind = "sasl" \/ ~IsSaslOnlyError(Last(received'))))
            => UNCHANGED << loop, connected, sent, dispatched, raised >>]_vars

\* C2 witness: the unauthenticated bot joined #ops on welcome, then received
\* the "SASL access only" error and terminated after sending QUIT.
C2_Witness ==
    /\ _bot.kind = "simple"
    /\ Len(received) = 2
    /\ received[1].type = "welcome"
    /\ IsSaslOnlyError(received[2])
    /\ Terminated
    /\ raised = "SystemExit"
    /\ Joins(sent) = << [cmd |-> "JOIN", arg |-> "#ops"] >>
    /\ Last(sent).cmd = "QUIT"

\* C3: once setup() has run, the session is the SASL bot if and only if the
\* configured password is present and non-empty, the unauthenticated bot
\* otherwise, and it is exactly one of the two.
C3_SaslIffPassword ==
    _bot.kind # "none" =>
        /\ _bot.kind \in {"sasl", "simple"}
        /\ (_bot.kind = "sasl") <=> (_password # None /\ _password # Str(""))
        /\ (_bot.kind = "simple") <=> (_password = None \/ _password = Str(""))

\* C3 witness: setup() ran with an empty password and built the
\* unauthenticated bot.
C3_Witness == _bot.kind = "simple" /\ _password = Str("")

\* the keys a payload of each kind must have
PayloadKeys(kind) ==
    CASE kind = "pubmsg" -> {"source", "channel", "timestamp", "message"}
      [] kind = "privmsg" -> {"source", "timestamp", "message"}
      [] kind = "join" -> {"source", "channel", "timestamp"}
      [] kind = "part" -> {"source", "channel", "timestamp"}

DispatchKinds == {"pubmsg", "privmsg", "join", "part"}
IsDispatchKind(e) == e.type \in DispatchKinds

\* the payload d was built from the raw event e as the contract says
PayloadOf(e, d) ==
    /\ d.trigger = "irc." \o e.type
    /\ DOMAIN d = {"trigger", "payload"}
    /\ DOMAIN d.payload = PayloadKeys(e.type)
    /\ DOMAIN d.payload.source = {"nick", "host"}
    /\ d.payload.source.nick = e.source.nick
    /\ d.payload.source.host = e.source.host
    /\ "channel" \in PayloadKeys(e.type) => d.payload.channel = e.target
    /\ "message" \in PayloadKeys(e.type) => d.payload.message = e.arguments[1]

\* C4: a step that delivers a pubmsg, privmsg, join or part event makes
\* one dispatch, whose trigger is irc.<kind> and whose payload has exactly the
\* keys of its kind, source = {nick, host}, and the event's source nick and
\* host, target (as channel) and first argument (as message) as values.
C4_PayloadShape ==
    [][\A kind \in DispatchKinds :
         Receives(kind) =>
            /\ Len(dispatched') = Len(dispatched) + 1
            /\ PayloadOf(Last(received'), Last(dispatched'))]_vars

\* C4 witness: the pubmsg of alice on #ops saying "deploy v2" was dispatched
\* as irc.pubmsg with the payload of the specification's scenario.
C4_Witness ==
    /\ Len(received) > 0
    /\ Last(received).type = "pubmsg"
    /\ Len(dispatched) > 0
    /\ Last(dispatched) =
         [trigger |-> "irc.pubmsg",
          payload |-> [source |-> [nick |-> "alice", host |-> "alice@host"],
                       channel |-> "#ops",
                       timestamp |-> 0,
                       message |-> "deploy v2"]]

\* C5: a step that delivers a welcome, to a session of either kind, issues
\* one join per configured channel, in configuration order, and nothing else:
\* no other command and no dispatch, and the event loop and the connection
\* stay up; with channels ["#ops"] and no password it issues exactly a join
\* of #ops.
C5_WelcomeJoinsChannels ==
    [][Receives("welcome") =>
         /\ sent' = sent \o [i \in 1..Len(_channels) |->
                                [cmd |-> "JOIN", arg |-> _channels[i]]]
         /\ (_channels = << "#ops" >> /\ _password = None)
               => sent' = Append(sent, [cmd |-> "JOIN", arg |-> "#ops"])
         /\ UNCHANGED << dispatched, loop, connected, raised, _bot >>]_vars

\* C5 witness: the SASL bot configured with #ops and #dev received a welcome
\* and joined #ops, then #dev.
C5_Witness ==
    /\ _bot.kind = "sasl"
    /\ Len(received) = 1
    /\ received[1].type = "welcome"
    /\ sent = << [cmd |-> "JOIN", arg |-> "#ops"], [cmd |-> "JOIN", arg |-> "#dev"] >>

\* C6: in every state the dispatch calls made so far are, one for one and in
\* arrival order, the pubmsg, privmsg, join and part events received so far.
C6_DispatchesFollowEvents ==
    LET events == SelectSeq(received, IsDispatchKind) IN
      /\ Len(dispatched) = Len(events)
      /\ \A i \in 1..Len(events) :
           /\ dispatched[i].trigger = "irc." \o events[i].type
           /\ dispatched[i].payload.source = events[i].source
           /\ dispatched[i].payload.timestamp * TicksPerSecond <= events[i].recv
           /\ events[i].recv < (dispatched[i].payload.timestamp + 1) * TicksPerSecond

\* C6 witness: a join, then a part were received and dispatched in that order.
C6_Witness ==
    /\ Len(received) = 2
    /\ received[1].type = "join"
    /\ received[2].type = "part"
    /\ Len(dispatched) = 2
    /\ dispatched[1].trigger = "irc.join"
    /\ dispatched[2].trigger = "irc.part"

IsNickInUse(e) == e.type = "nicknameinuse"

\* how many nickname-in-use events are among the first i received events
NickInUseUpTo(i) == Len(SelectSeq(SubSeq(received, 1, i), IsNickInUse))

\* the positions i such that received[i] and received[i+1] are both
\* nickname-in-use events
ConsecutiveCollisions ==
    {i \in 1..(Len(received) - 1) :
        IsNickInUse(received[i]) /\ IsNickInUse(received[i + 1])}

\* the nickname requested in response to the nickname-in-use event received[i]
RequestFor(i) == NickRequests(sent)[NickInUseUpTo(i)].arg

\* C7 as stated: of two consecutive nickname-in-use events, the nickname
\* requested in response to the second differs from the one requested in
\* response to the first.
C7_Original ==
    \A i \in ConsecutiveCollisions : RequestFor(i + 1) # RequestFor(i)

\* C7 as amended: of two consecutive nickname-in-use events, the second
\* request equals the first exactly when the connection's current nickname
\* is the same at both events and random.randint returns the same suffix
\* twice; otherwise the two requests differ.
C7_SameRequestIffSameDraw ==
    \A i \in ConsecutiveCollisions :
        (RequestFor(i + 1) = RequestFor(i)) <=>
            /\ received[i + 1].target = received[i].target
            /\ draws[NickInUseUpTo(i + 1)] = draws[NickInUseUpTo(i)]

\* C7 witness: two consecutive nickname-in-use events drew different suffixes
\* and two different nicknames were requested.
C7_Witness ==
    /\ ConsecutiveCollisions = {1}
    /\ draws = << RandLo, RandHi >>
    /\ RequestFor(1) = "bot1-1"
    /\ RequestFor(2) = "bot1-1000"

\* the decimal numerals of the integers 1..1000
Suffixes == {ToString(n) : n \in 1..1000}

\* C8: a step that delivers a nickname-in-use event issues one command, a
\* nickname change to '<nick>-<n>' with <nick> the connection's current
\* nickname and n the integer drawn, 1 <= n <= 1000; for the current
\* nickname "bot1" the request is bot1-<integer 1..1000>.
C8_NicknameFormat ==
    [][Receives("nicknameinuse") =>
         /\ Len(sent') = Len(sent) + 1
         /\ Last(sent').cmd = "NICK"
         /\ Len(draws') = Len(draws) + 1
         /\ Last(draws') \in 1..1000
         /\ Last(sent').arg = real_nickname \o "-" \o ToString(Last(draws'))
         /\ SubSeq(sent', 1, Len(sent)) = sent
         /\ real_nickname = "bot1" =>
               /\ SubSeq(Last(sent').arg, 1, 5) = "bot1-"
               /\ SubSeq(Last(sent').arg, 6, Len(Last(sent').arg)) \in Suffixes]_vars

\* C8 witness: the nickname bot1 was in use and bot1-1000 was requested.
C8_Witness ==
    /\ Len(received) > 0
    /\ IsNickInUse(Last(received))
    /\ Last(received).target = "bot1"
    /\ Len(sent) > 0
    /\ Last(sent) = [cmd |-> "NICK", arg |-> "bot1-1000"]

\* C9: every nickname-in-use event received so far, however many, produced
\* a nickname request, and a step that delivers one neither ends the event
\* loop nor disconnects, raises nothing, and issues no join and no dispatch.
C9_CollisionAlwaysRetried ==
    /\ [](Len(NickRequests(sent)) = Len(SelectSeq(received, IsNickInUse)))
    /\ [][Receives("nicknameinuse") =>
            /\ Len(NickRequests(sent')) = Len(NickRequests(sent)) + 1
            /\ Joins(sent') = Joins(sent)
            /\ UNCHANGED << loop, connected, raised, dispatched >>]_vars

\* C9 witness: as many collisions in a row as the bound allows, each answered
\* by a request, and the session still connected and running.
C9_Witness ==
    /\ Len(received) = MaxEvents
    /\ \A i \in DOMAIN received : IsNickInUse(received[i])
    /\ Len(NickRequests(sent)) = MaxEvents
    /\ loop = "running"
    /\ connected
    /\ dispatched = << >>

\* C10: a call of cleanup() that finds the session built and already
\* disconnected (never connected, disconnected by an earlier cleanup(), or
\* terminated) raises nothing, sends nothing and leaves the session
\* disconnected: it changes nothing of the session.
C10_CleanupIdempotent ==
    [][(Len(cleanups') = Len(cleanups) + 1 /\ _bot.kind # "none" /\ ~connected)
          => /\ ~connected'
             /\ UNCHANGED << sent, raised, loop, real_nickname, requested, _bot,
                             dispatched, received, config >>]_vars

\* C10 witness: cleanup() disconnected the running session, sending one QUIT,
\* and was called again on the disconnected session, which sent nothing more.
C10_Witness ==
    /\ Len(cleanups) = 2
    /\ cleanups[1] = [connected |-> TRUE, loop |-> "running"]
    /\ cleanups[2] = [connected |-> FALSE, loop |-> "running"]
    /\ Len(SelectSeq(sent, LAMBDA c : c.cmd = "QUIT")) = 1
    /\ ~connected
    /\ raised = ""

\* cleanup() has been called on a session that was connected and running
CleanedUpWhileActive ==
    \E i \in DOMAIN cleanups :
        cleanups[i].connected /\ cleanups[i].loop = "running"

\* C11 as stated: once cleanup() has been called on the active session, the
\* session is disconnected and stays so: it is never connected again.
C11_CleanupEndsSession == CleanedUpWhileActive => ~connected


\* the positions of the colons of a 'server' value
Colons(s) == {i \in 1..Len(s) : SubSeq(s, i, i) = ":"}

\* host:port with an integer port: one colon, then decimal digits only
IsHostPort(s) ==
    /\ Cardinality(Colons(s)) = 1
    /\ \A c \in Colons(s) :
         /\ c < Len(s)
         /\ \A i \in (c + 1)..Len(s) :
              SubSeq(s, i, i) \in {"0", "1", "2", "3", "4", "5", "6", "7", "8", "9"}

\* a configuration the host must not be able to construct the sensor with
Misconfigured(cfg) ==
    \/ "server" \notin DOMAIN cfg
    \/ "nickname" \notin DOMAIN cfg
    \/ "channels" \notin DOMAIN cfg
    \/ ~IsHostPort(cfg["server"])

\* C12 as stated: construction with a misconfiguration (a 'server' value that
\* is not host:port with an integer port, a missing nickname, a missing
\* channel list) fails with an error, builds no session and does no network
\* I/O.
C12_MisconfigurationFailsFast ==
    (sensor # "unbuilt" /\ Misconfigured(_config)) =>
        /\ sensor = "failed"
        /\ raised # ""
        /\ _bot = NoBot
        /\ ~connected
        /\ sent = << >>

\* the received events whose kind has an entry in the session's handler mapping
IsMapped(e) == e.type \in DOMAIN _bot._handlers

\* C13: a step that delivers a pubmsg, privmsg, join or part event whose kind
\* has no entry in the session's handler mapping makes no dispatch, raises
\* nothing, sends nothing and leaves the session, its event loop and its
\* connection as they were; and in every state the dispatches made so far are,
\* one for one and in order, the received events whose kind is mapped, so
\* events after an ignored one are still dispatched.
C13_UnmappedKindIgnored ==
    /\ [][\A kind \in DispatchKinds \ DOMAIN _bot._handlers :
            Receives(kind) =>
               UNCHANGED << dispatched, sent, raised, _bot, loop, conn, config >>]_vars
    /\ [](LET mapped == SelectSeq(received, IsMapped) IN
            /\ Len(dispatched) = Len(mapped)
            /\ \A i \in 1..Len(mapped) :
                 dispatched[i].trigger = "irc." \o mapped[i].type)

\* C13 witness: a session without a part handler ignored a part event and
\* then dispatched the join that followed it.
C13_Witness ==
    /\ "part" \notin DOMAIN _bot._handlers
    /\ Len(received) = 2
    /\ received[1].type = "part"
    /\ received[2].type = "join"
    /\ raised = ""
    /\ Len(dispatched) = 1
    /\ dispatched[1].trigger = "irc.join"

TriggerKinds == {"irc.pubmsg", "irc.privmsg", "irc.join", "irc.part"}

\* this step is a call of add_trigger, update_trigger or remove_trigger
CallsTriggerHook == trigger_calls' # trigger_calls

\* C14: every dispatch made carries a trigger name in {irc.pubmsg, irc.privmsg,
\* irc.join, irc.part} and is the dispatch of the received event of that kind
\* at the same position among the dispatched kinds, whatever trigger hooks were
\* called and when; and a call of add_trigger, update_trigger or remove_trigger
\* changes nothing of the sensor, the session, the connection or the dispatches.
C14_TriggerKindsFixed ==
    /\ [](LET events == SelectSeq(received, IsDispatchKind) IN
            /\ \A i \in DOMAIN dispatched :
                 /\ dispatched[i].trigger \in TriggerKinds
                 /\ i <= Len(events)
                 /\ dispatched[i].trigger = "irc." \o events[i].type
            /\ Len(events) = Len(dispatched))
    /\ [][CallsTriggerHook =>
            UNCHANGED << sensor, _config, _server_host, _server_port, _nickname,
                         _password, _channels, _bot, loop, conn, cleanups, sent,
                         dispatched, draws, received, raised, now >>]_vars

\* C14 witness: update_trigger was last called between a pubmsg and a part;
\* both events were dispatched.
C14_Witness ==
    /\ trigger_calls = [hook |-> "update_trigger", at |-> 1]
    /\ Len(received) = 2
    /\ received[1].type = "pubmsg"
    /\ received[2].type = "part"
    /\ Len(dispatched) = 2
    /\ dispatched[1].trigger = "irc.pubmsg"
    /\ dispatched[2].trigger = "irc.part"

\* the timestamp of the i-th dispatch and the raw event it was made for
TimestampOf(i) == dispatched[i].payload.timestamp
EventOf(i) == SelectSeq(received, IsDispatchKind)[i]

GotWelcome == \E i \in DOMAIN received : received[i].type = "welcome"

\* C16 as stated: a step that issues a channel join request is a step that
\* receives a welcome event, and no join is issued before the first welcome.
C16_Original ==
    /\ [][Joins(sent') # Joins(sent) => Receives("welcome")]_vars
    /\ [](Joins(sent) # << >> => GotWelcome)

\* C16: a step that issues a channel join request receives either a welcome
\* event, or, in a session without password, a kick of the session itself,
\* which is answered by one join of the channel it was kicked from; no join is
\* issued before the first welcome, and none by a step that receives a message,
\* join, part, nickname-in-use or error event.
C16_JoinsOnWelcomeOrOwnKick ==
    /\ [][Joins(sent') # Joins(sent) =>
            \/ Receives("welcome")
            \/ /\ Receives("kick")
               /\ _bot.kind = "simple"
               /\ _password \in {None, Str("")}
               /\ Last(received').arguments[1] = real_nickname
               /\ sent' = Append(sent, [cmd |-> "JOIN",
                                        arg |-> Last(received').target])]_vars
    /\ [][\A kind \in {"pubmsg", "privmsg", "join", "part", "nicknameinuse", "error"} :
            Receives(kind) => Joins(sent') = Joins(sent)]_vars
    /\ [](Joins(sent) # << >> => GotWelcome)

\* C16 witness: the session without password joined #ops on welcome, was
\* kicked from it and joined it again.
C16_Witness ==
    /\ _bot.kind = "simple"
    /\ Len(received) = 2
    /\ received[1].type = "welcome"
    /\ received[2].type = "kick"
    /\ received[2].arguments[1] = real_nickname
    /\ sent = << [cmd |-> "JOIN", arg |-> "#ops"], [cmd |-> "JOIN", arg |-> "#ops"] >>

NoSession == _bot.kind = "none"

\* C17: the constructor leaves the sensor without a session; while setup() has
\* not run there is no event loop, no connection, and nothing was sent,
\* received or dispatched; a call of run() or of cleanup() in that state
\* raises AttributeError and starts nothing; and no step but setup() builds
\* the session.
C17_NoSessionBeforeSetup ==
    /\ NoSession
    /\ [](NoSession =>
            /\ loop = "idle"
            /\ ~connected
            /\ sent = << >>
            /\ received = << >>
            /\ dispatched = << >>
            /\ Len(cleanups) > 0 => raised = "AttributeError")
    /\ [][NoSession /\ (run \/ cleanups' # cleanups) =>
            /\ raised' = "AttributeError"
            /\ NoSession'
            /\ UNCHANGED << loop, conn, sent, received, dispatched >>]_vars
    /\ [][NoSession /\ ~NoSession' => UNCHANGED << loop, conn, sent, received >>]_vars

\* C17 witness: run() was called on the sensor before setup() and before any
\* cleanup(): it raised AttributeError and nothing is running or connected.
C17_Witness ==
    /\ NoSession
    /\ cleanups = << >>
    /\ raised = "AttributeError"
    /\ loop = "idle"
    /\ ~connected

\* the connection configuration as the constructor read it from the config
ConfigurationAsConstructed ==
    /\ _server_host = "irc.example.org"
    /\ _server_port = 6697
    /\ _nickname = _config["nickname"]
    /\ _password = (IF "password" \in DOMAIN _config THEN _config["password"] ELSE None)
    /\ _channels = _config["channels"]

\* C18: the config and the host, port, nickname, password and channel list the
\* sensor holds stay what the constructor read; the session, once built, holds
\* the configured channel list and setup()'s handler mapping and no step
\* changes it; a step that receives a nickname-in-use event changes only the
\* nickname requested on the connection; and a step that receives a welcome,
\* after collisions or not, joins the channels of the config.
C18_ConfigurationNeverModified ==
    /\ [](/\ ConfigurationAsConstructed
          /\ ~NoSession => /\ _bot._channels = _config["channels"]
                           /\ DOMAIN _bot._handlers = DispatchKinds
                           /\ \A kind \in DispatchKinds :
                                _bot._handlers[kind] = "_handle_" \o kind)
    /\ [][/\ UNCHANGED << _config, _server_host, _server_port, _nickname,
                          _password, _channels >>
          /\ ~NoSession => _bot' = _bot]_vars
    /\ [][Receives("nicknameinuse") =>
            /\ requested' # _nickname
            /\ UNCHANGED << _bot, real_nickname, connected, loop >>]_vars
    /\ [][Receives("welcome") =>
            Joins(sent') = Joins(sent) \o
                [i \in 1..Len(_config["channels"]) |->
                    [cmd |-> "JOIN", arg |-> _config["channels"][i]]]]_vars

\* C18 witness: after a nickname collision the session asked for bot1-1, was
\* welcomed under that nickname and joined the configured #ops; the configured
\* nickname is still bot1.
C18_Witness ==
    /\ Len(received) = 2
    /\ received[1].type = "nicknameinuse"
    /\ received[2].type = "welcome"
    /\ real_nickname = "bot1-1"
    /\ _nickname = "bot1"
    /\ _bot._channels = << "#ops" >>
    /\ sent = << [cmd |-> "NICK", arg |-> "bot1-1"], [cmd |-> "JOIN", arg |-> "#ops"] >>
====
